---- MODULE Spec2Model ----
(***************************************************************************)
(* CamUsageWin: the consent-store reader (LoadConsentStore), the list      *)
(* renderer (ListView_Populate) and the window procedure's refresh         *)
(* handlers, over a registry store that other processes change.            *)
(*                                                                         *)
(* Strings are sequences of one-character strings.  A registry value is    *)
(* <<>> when RegGetValueW(..., RRF_RT_QWORD, ...) does not succeed on it   *)
(* (absent, or not a REG_QWORD) and <<v>> when it reads the QWORD v.       *)
(***************************************************************************)
EXTENDS Integers, Sequences, FiniteSets

VARIABLES
    store,      \* the registry under REG_WEBCAM_BASE
    g_rows,     \* std::vector<CamRow> g_rows
    list,       \* the items of the list view g_hList
    checked,    \* the check state of g_hChkCurrent
    ui,         \* "init" before WM_CREATE, "ready" after it
    changed,    \* the store changed since the last refresh
    hadRows,    \* g_rows held rows when the last refresh began
    pc,         \* position inside LoadConsentStore (step-level specification)
    index,      \* DWORD index of the outer loop
    idx2,       \* DWORD idx2 of the inner loop
    enumFault   \* the key on which every RegEnumKeyExW call fails, or "none"

uiVars == <<list, checked, ui, changed, hadRows>>
loopVars == <<pc, index, idx2, enumFault>>
vars == <<store, g_rows, list, checked, ui, changed, hadRows, pc, index, idx2, enumFault>>

(***************************************************************************)
(* Bounds of the model.                                                    *)
(***************************************************************************)
MaxKeys == 3     \* subkeys in the store: children of the root plus children of NonPackaged
MaxFt == 2       \* largest LastUsedTimeStart tick
MaxStop == 1     \* largest LastUsedTimeStop tick
MaxFaults == 1   \* keys of the store whose enumeration or opening fails

(***************************************************************************)
(* The store.                                                              *)
(***************************************************************************)
NonPackaged == <<"N", "o", "n", "P", "a", "c", "k", "a", "g", "e", "d">>

PackagedNames == {<<"A", "1">>, <<"x", "#", "y">>}
NonPackagedNames == {NonPackaged, <<"n", "o", "n", "p", "a", "c", "k", "a", "g", "e", "d">>}
DesktopNames == {<<"C", ":", "#", "d", "#", "a", "/", "b">>, <<"t">>}

StartValues == {<<>>} \cup {<<v>> : v \in 0..MaxFt}
StopValues == {<<>>} \cup {<<v>> : v \in 0..MaxStop}
Results == {"ok", "enumErr", "openErr"}

towlower(c) ==
    CASE c = "N" -> "n"
      [] c = "P" -> "p"
      [] c = "A" -> "a"
      [] c = "C" -> "c"
      [] OTHER -> c

\* 0 when the two strings are equal ignoring case, non-zero otherwise (the
\* sign of a non-zero result is never used).
_wcsicmp(a, b) ==
    IF Len(a) = Len(b) /\ \A i \in 1..Len(a) : towlower(a[i]) = towlower(b[i])
    THEN 0 ELSE 1

IsNonPackaged(name) == _wcsicmp(name, NonPackaged) = 0

InsertAt(s, pos, x) == SubSeq(s, 1, pos - 1) \o <<x>> \o SubSeq(s, pos, Len(s))
RemoveAt(s, pos) == SubSeq(s, 1, pos - 1) \o SubSeq(s, pos + 1, Len(s))

NewKey(n) == [name |-> n, res |-> "ok", start |-> <<>>, stop |-> <<>>]

FaultCount(s) ==
    (IF s.open THEN 0 ELSE 1)
    + Cardinality({i \in 1..Len(s.keys) : s.keys[i].res # "ok"})
    + Cardinality({j \in 1..Len(s.np) : s.np[j].res # "ok"})

HasNonPackaged(s) == \E i \in 1..Len(s.keys) : IsNonPackaged(s.keys[i].name)

\* The stores one registry operation away from s.
RegCreateKey(s) ==
    {[s EXCEPT !.keys = InsertAt(@, pos, NewKey(n))] :
        <<pos, n>> \in {pn \in (1..(Len(s.keys) + 1)) \X (PackagedNames \cup NonPackagedNames) :
            /\ Len(s.keys) + Len(s.np) < MaxKeys
            /\ \A i \in 1..Len(s.keys) : _wcsicmp(s.keys[i].name, pn[2]) # 0}}
    \cup
    {[s EXCEPT !.np = InsertAt(@, pos, NewKey(n))] :
        <<pos, n>> \in {pn \in (1..(Len(s.np) + 1)) \X DesktopNames :
            /\ HasNonPackaged(s)
            /\ Len(s.keys) + Len(s.np) < MaxKeys
            /\ \A j \in 1..Len(s.np) : _wcsicmp(s.np[j].name, pn[2]) # 0}}

RegDeleteKey(s) ==
    {[s EXCEPT !.keys = RemoveAt(@, i),
               !.np = IF IsNonPackaged(s.keys[i].name) THEN <<>> ELSE @] :
        i \in 1..Len(s.keys)}
    \cup
    {[s EXCEPT !.np = RemoveAt(@, j)] : j \in 1..Len(s.np)}

\* The values of the NonPackaged key itself are never read and are left out.
RegSetValue(s) ==
    {[s EXCEPT !.keys[i].start = v] :
        <<i, v>> \in {iv \in (1..Len(s.keys)) \X StartValues : ~IsNonPackaged(s.keys[iv[1]].name)}}
    \cup
    {[s EXCEPT !.keys[i].stop = v] :
        <<i, v>> \in {iv \in (1..Len(s.keys)) \X StopValues : ~IsNonPackaged(s.keys[iv[1]].name)}}
    \cup
    {[s EXCEPT !.np[j].start = v] : <<j, v>> \in (1..Len(s.np)) \X StartValues}
    \cup
    {[s EXCEPT !.np[j].stop = v] : <<j, v>> \in (1..Len(s.np)) \X StopValues}

\* A key becomes unreadable (or readable again): the root cannot be opened, a
\* child's enumeration call fails, or a child cannot be opened.
RegSetAccess(s) ==
    {t \in
        {[s EXCEPT !.open = b] : b \in BOOLEAN}
        \cup {[s EXCEPT !.keys[i].res = r] : <<i, r>> \in (1..Len(s.keys)) \X Results}
        \cup {[s EXCEPT !.np[j].res = r] : <<j, r>> \in (1..Len(s.np)) \X Results} :
      FaultCount(t) <= MaxFaults}

(***************************************************************************)
(* Helpers.                                                                *)
(***************************************************************************)
ReplaceAll(s, from, to) == [i \in 1..Len(s) |-> IF s[i] = from THEN to ELSE s[i]]

\* find_last_of: the last position holding one of the characters, 0 for npos.
find_last_of(path, chars) ==
    LET hits == {i \in 1..Len(path) : path[i] \in chars}
    IN IF hits = {} THEN 0 ELSE CHOOSE i \in hits : \A k \in hits : k <= i

\* Mutant: splits at the first separator instead of the last.
LeafName_FirstSeparator(path) ==
    LET hits == {i \in 1..Len(path) : path[i] \in {"\\", "/"}}
        pos == IF hits = {} THEN 0 ELSE CHOOSE i \in hits : \A k \in hits : i <= k
    IN IF pos = 0 THEN path ELSE SubSeq(path, pos + 1, Len(path))

LeafName(path) ==
    LET pos == find_last_of(path, {"\\", "/"})
    IN IF pos = 0 THEN path ELSE SubSeq(path, pos + 1, Len(path))

TicksPerSecond == 10000000

\* The empty string for 0; otherwise the calendar fields of the tick count
\* (day since 1601-01-01, hour, minute, second), never empty.
FtToLocalString(ft) ==
    IF ft = 0 THEN <<>>
    ELSE LET secs == ft \div TicksPerSecond
         IN <<secs \div 86400, (secs \div 3600) % 24, (secs \div 60) % 60, secs % 60>>

\* Mutant: a failed read leaves a non-zero value behind.
RegGetQword_Garbage(value, out) == IF value # <<>> THEN value[1] ELSE 1

\* The value read into `out`: the QWORD when the read succeeds, else `out` as it was.
RegGetQword(value, out) == IF value # <<>> THEN value[1] ELSE out

(***************************************************************************)
(* LoadConsentStore.                                                       *)
(***************************************************************************)
\* The result of RegEnumKeyExW on a key with the subkeys `keys` at the 0-based
\* index i; `fault` is a key whose every enumeration call fails.
RegEnumKeyExW(keys, fault, i) ==
    IF fault THEN "ERROR"
    ELSE IF i >= Len(keys) THEN "ERROR_NO_MORE_ITEMS"
    ELSE IF keys[i + 1].res = "enumErr" THEN "ERROR"
    ELSE "ERROR_SUCCESS"

\* The result of RegOpenKeyExW on the subkey e.
RegOpenKeyExW(e) == IF e.res = "ok" THEN "ERROR_SUCCESS" ELSE "ERROR"

\* Mutant: active whenever no stop is recorded, whatever the start.
DesktopRow_StopOnly(e) ==
    LET start == RegGetQword(e.start, 0)
        stop == RegGetQword(e.stop, 0)
        exe == ReplaceAll(e.name, "#", "\\")
    IN [kind |-> "Desktop", app |-> LeafName(exe), exe |-> exe,
        activeNow |-> (stop = 0), startFt |-> start, stopFt |-> stop]

DesktopRow(e) ==
    LET start == RegGetQword(e.start, 0)
        stop == RegGetQword(e.stop, 0)
        exe == ReplaceAll(e.name, "#", "\\")
    IN [kind |-> "Desktop", app |-> LeafName(exe), exe |-> exe,
        activeNow |-> (start # 0) /\ (stop = 0), startFt |-> start, stopFt |-> stop]

PackagedRow(e) ==
    LET start == RegGetQword(e.start, 0)
        stop == RegGetQword(e.stop, 0)
    IN [kind |-> "Packaged", app |-> e.name, exe |-> <<>>,
        activeNow |-> (start # 0) /\ (stop = 0), startFt |-> start, stopFt |-> stop]

\* The body of the inner loop for an enumerated child e of NonPackaged.
DesktopChild(e, out) ==
    IF RegOpenKeyExW(e) = "ERROR_SUCCESS" THEN Append(out, DesktopRow(e)) ELSE out

\* The body of the outer loop's else-branch for an enumerated child e.
PackagedChild(e, out) ==
    IF RegOpenKeyExW(e) = "ERROR_SUCCESS" THEN Append(out, PackagedRow(e)) ELSE out

\* The inner loop from idx2 = i2 on, on a key whose enumeration ends.
RECURSIVE EnumNonPackaged(_, _, _)
EnumNonPackaged(s, i2, out) ==
    LET r2 == RegEnumKeyExW(s.np, FALSE, i2)
    IN IF r2 = "ERROR_NO_MORE_ITEMS" THEN out
       ELSE IF r2 # "ERROR_SUCCESS" THEN EnumNonPackaged(s, i2 + 1, out)
       ELSE EnumNonPackaged(s, i2 + 1, DesktopChild(s.np[i2 + 1], out))

\* Mutant: an enumeration error ends the outer loop (break for continue).
RECURSIVE EnumRoot_BreakOnError(_, _, _)
EnumRoot_BreakOnError(s, i, out) ==
    LET rr == RegEnumKeyExW(s.keys, FALSE, i)
    IN IF rr # "ERROR_SUCCESS" THEN out
       ELSE LET e == s.keys[i + 1]
            IN IF _wcsicmp(e.name, NonPackaged) = 0
               THEN IF RegOpenKeyExW(e) = "ERROR_SUCCESS"
                    THEN EnumRoot_BreakOnError(s, i + 1, EnumNonPackaged(s, 0, out))
                    ELSE EnumRoot_BreakOnError(s, i + 1, out)
               ELSE EnumRoot_BreakOnError(s, i + 1, PackagedChild(e, out))

\* The outer loop from index = i on, on a key whose enumeration ends.
RECURSIVE EnumRoot(_, _, _)
EnumRoot(s, i, out) ==
    LET rr == RegEnumKeyExW(s.keys, FALSE, i)
    IN IF rr = "ERROR_NO_MORE_ITEMS" THEN out
       ELSE IF rr # "ERROR_SUCCESS" THEN EnumRoot(s, i + 1, out)
       ELSE LET e == s.keys[i + 1]
            IN IF _wcsicmp(e.name, NonPackaged) = 0
               THEN IF RegOpenKeyExW(e) = "ERROR_SUCCESS"
                    THEN EnumRoot(s, i + 1, EnumNonPackaged(s, 0, out))
                    ELSE EnumRoot(s, i + 1, out)
               ELSE EnumRoot(s, i + 1, PackagedChild(e, out))

\* Mutant: the tie-break compares the starts the other way round.
RowLess_Ascending(a, b) ==
    IF a.activeNow # b.activeNow THEN a.activeNow /\ ~b.activeNow
    ELSE a.startFt < b.startFt

\* The comparator handed to std::sort.
RowLess(a, b) ==
    IF a.activeNow # b.activeNow THEN a.activeNow /\ ~b.activeNow
    ELSE a.startFt > b.startFt

IndexPermutations(n) == {p \in [1..n -> 1..n] : \A i, j \in 1..n : i # j => p[i] # p[j]}

\* std::sort: some permutation of the range in which no element is less than
\* one before it; the order of equivalent elements is not specified.
std_sort(out) ==
    {r \in {[i \in 1..Len(out) |-> out[p[i]]] : p \in IndexPermutations(Len(out))} :
        \A i, j \in 1..Len(r) : i < j => ~RowLess(r[j], r[i])}

\* Mutant: the vector is not cleared on entry.
LoadConsentStore_NoClear(out, s) ==
    IF ~s.open THEN {out} ELSE std_sort(EnumRoot(s, 0, out))

\* The contents `out` can have when the call returns.
LoadConsentStore(out, s) ==
    LET cleared == <<>>
    IN IF ~s.open THEN {cleared} ELSE std_sort(EnumRoot(s, 0, cleared))

(***************************************************************************)
(* ListView_Populate.                                                      *)
(***************************************************************************)
ListItem(r) ==
    [kind |-> r.kind, app |-> r.app, exe |-> r.exe,
     active |-> IF r.activeNow THEN "Yes" ELSE "No",
     start |-> FtToLocalString(r.startFt), stop |-> FtToLocalString(r.stopFt)]

\* The loop from the k-th row of src on, with i items inserted so far.
RECURSIVE PopulateFrom(_, _, _, _, _)
PopulateFrom(items, src, k, i, currentOnly) ==
    IF k > Len(src) THEN items
    ELSE IF currentOnly /\ ~src[k].activeNow
         THEN PopulateFrom(items, src, k + 1, i, currentOnly)
         ELSE PopulateFrom(InsertAt(items, i + 1, ListItem(src[k])), src, k + 1, i + 1, currentOnly)

\* Mutant: the currentOnly test is dropped.
ListView_Populate_NoFilter(src, currentOnly) == PopulateFrom(<<>>, src, 1, 0, FALSE)

ListView_Populate(src, currentOnly) == PopulateFrom(<<>>, src, 1, 0, currentOnly)

(***************************************************************************)
(* The window procedure.  A handler runs to its end before the next        *)
(* message is taken, and is one action: a run of DoRefresh that returns,   *)
(* on a store that does not change during the run.  The run that does not  *)
(* return (enumFault) is in the step-level specification further down.     *)
(***************************************************************************)
DoRefresh(curOnly) ==
    /\ \E rows \in LoadConsentStore(g_rows, store) :
          /\ g_rows' = rows
          /\ list' = ListView_Populate(rows, curOnly)
    /\ hadRows' = (g_rows # <<>>)
    /\ changed' = FALSE
    /\ UNCHANGED <<store, loopVars>>

WM_CREATE ==
    /\ ui = "init"
    /\ ui' = "ready"
    /\ UNCHANGED checked
    /\ DoRefresh(checked)

IDC_REFRESH ==
    /\ ui = "ready"
    /\ UNCHANGED <<ui, checked>>
    /\ DoRefresh(checked)

\* Mutant: the checkbox only re-filters the rows already loaded.
IDC_CURONLY_NoReload ==
    /\ ui = "ready"
    /\ checked' = ~checked
    /\ list' = ListView_Populate(g_rows, ~checked)
    /\ hadRows' = (g_rows # <<>>)
    /\ changed' = FALSE
    /\ UNCHANGED <<ui, g_rows, store, loopVars>>

\* BS_AUTOCHECKBOX: the click flips the check state before WM_COMMAND arrives.
IDC_CURONLY ==
    /\ ui = "ready"
    /\ checked' = ~checked
    /\ UNCHANGED ui
    /\ DoRefresh(~checked)

\* Another process changes the store by one registry operation; the model
\* takes at most one such change between two refreshes.
StoreChange ==
    /\ ~changed
    /\ \E s \in RegCreateKey(store) \cup RegDeleteKey(store)
                \cup RegSetValue(store) \cup RegSetAccess(store) :
          /\ s # store
          /\ store' = s
    /\ changed' = TRUE
    /\ UNCHANGED <<g_rows, list, checked, ui, hadRows, loopVars>>

Init ==
    /\ store = [open |-> TRUE, keys |-> <<>>, np |-> <<>>]
    /\ g_rows = <<>>
    /\ list = <<>>
    /\ checked = FALSE
    /\ ui = "init"
    /\ changed = FALSE
    /\ hadRows = FALSE
    /\ pc = "idle"
    /\ index = 0
    /\ idx2 = 0
    /\ enumFault = "none"

Next == WM_CREATE \/ IDC_REFRESH \/ IDC_CURONLY \/ StoreChange

Spec == Init /\ [][Next]_vars

(***************************************************************************)
(* LoadConsentStore step by step: one action per pass of a loop, on a      *)
(* store that does not change during the call.                             *)
(***************************************************************************)
\* DWORD arithmetic of index++ and idx2++.  The model's DWORD wraps after
\* DwordRange values (2^32 in the build): more than any enumeration that
\* ends uses.
DwordRange == MaxKeys + 2

SeqsUpTo(S, n) == UNION {[1..k -> S] : k \in 0..n}

LoopEntries(names) ==
    [name : names, res : Results, start : {<<1>>, <<2>>}, stop : {<<0>>, <<1>>}]

DistinctNames(keys) ==
    \A i, j \in 1..Len(keys) : i # j => _wcsicmp(keys[i].name, keys[j].name) # 0

\* out.clear() and the opening of the root key.
LoadEnter ==
    /\ pc = "call"
    /\ g_rows' = <<>>
    /\ IF store.open
       THEN pc' = "root" /\ index' = 0
       ELSE pc' = "return" /\ UNCHANGED index
    /\ UNCHANGED <<store, uiVars, idx2, enumFault>>

\* One pass of the outer while (true).
LoadRootPass ==
    /\ pc = "root"
    /\ index' = (index + 1) % DwordRange
    /\ LET rr == RegEnumKeyExW(store.keys, enumFault = "root", index)
       IN IF rr = "ERROR_NO_MORE_ITEMS"
          THEN pc' = "sort" /\ UNCHANGED <<g_rows, idx2>>
          ELSE IF rr # "ERROR_SUCCESS"
          THEN UNCHANGED <<pc, g_rows, idx2>>
          ELSE LET e == store.keys[index + 1]
               IN IF _wcsicmp(e.name, NonPackaged) = 0
                  THEN IF RegOpenKeyExW(e) = "ERROR_SUCCESS"
                       THEN pc' = "np" /\ idx2' = 0 /\ UNCHANGED g_rows
                       ELSE UNCHANGED <<pc, g_rows, idx2>>
                  ELSE /\ g_rows' = PackagedChild(e, g_rows)
                       /\ UNCHANGED <<pc, idx2>>
    /\ UNCHANGED <<store, uiVars, enumFault>>

\* One pass of the inner while (true).
LoadNpPass ==
    /\ pc = "np"
    /\ idx2' = (idx2 + 1) % DwordRange
    /\ LET r2 == RegEnumKeyExW(store.np, enumFault = "np", idx2)
       IN IF r2 = "ERROR_NO_MORE_ITEMS"
          THEN pc' = "root" /\ UNCHANGED g_rows
          ELSE IF r2 # "ERROR_SUCCESS"
          THEN UNCHANGED <<pc, g_rows>>
          ELSE /\ g_rows' = DesktopChild(store.np[idx2 + 1], g_rows)
               /\ UNCHANGED pc
    /\ UNCHANGED <<store, uiVars, index, enumFault>>

\* RegCloseKey(hBase) and std::sort, then the return.
LoadSort ==
    /\ pc = "sort"
    /\ g_rows' \in std_sort(g_rows)
    /\ pc' = "return"
    /\ UNCHANGED <<store, uiVars, index, idx2, enumFault>>

\* The call starts on any store within the bounds.
LoopInit ==
    /\ \E k \in SeqsUpTo(LoopEntries({<<"A", "1">>, NonPackaged}), MaxKeys) :
          /\ DistinctNames(k)
          /\ \E n \in SeqsUpTo(LoopEntries(DesktopNames), MaxKeys - Len(k)) :
                /\ DistinctNames(n)
                /\ \E o \in BOOLEAN :
                      LET s == [open |-> o, keys |-> k, np |-> n]
                      IN /\ n # <<>> => HasNonPackaged(s)
                         /\ FaultCount(s) <= MaxFaults
                         /\ store = s
    /\ enumFault \in {"none", "root", "np"}
    /\ g_rows = <<>>
    /\ list = <<>>
    /\ checked = FALSE
    /\ ui = "init"
    /\ changed = FALSE
    /\ hadRows = FALSE
    /\ pc = "call"
    /\ index = 0
    /\ idx2 = 0

LoopNext == LoadEnter \/ LoadRootPass \/ LoadNpPass \/ LoadSort

\* The thread inside the call keeps running: a pass that can be taken is taken.
LoopSpec == LoopInit /\ [][LoopNext]_vars /\ WF_vars(LoopNext)

\* The passes compute what the one-action LoadConsentStore computes.
LoopAgreesWithCall == pc = "return" => g_rows \in LoadConsentStore(<<>>, store)

(***************************************************************************)
(* Properties.                                                             *)
(***************************************************************************)
\* A handler has returned and the store is as that handler read it.
Fresh == ui = "ready" /\ ~changed

Rows == {g_rows[k] : k \in DOMAIN g_rows}

\* What the two timestamps of a key read as: the QWORD, or 0 when there is none.
QwordOrZero(v) == IF v = <<>> THEN 0 ELSE v[1]

\* The executable path a NonPackaged child's name stands for.
Decoded(name) == [i \in DOMAIN name |-> IF name[i] = "#" THEN "\\" ELSE name[i]]

\* The longest suffix of s holding none of the separators.
LastComponent(s, seps) ==
    LET n == Len(s)
        k == CHOOSE k \in 0..n :
                /\ \A i \in (n - k + 1)..n : s[i] \notin seps
                /\ (k = n \/ s[n - k] \in seps)
    IN SubSeq(s, n - k + 1, n)

\* The root children that are records of packaged apps, and whether the
\* NonPackaged key enumerates and opens.
PackagedIndexes(s) == {i \in 1..Len(s.keys) : s.keys[i].name \notin NonPackagedNames}
NonPackagedReadable(s) ==
    \E i \in 1..Len(s.keys) : s.keys[i].name \in NonPackagedNames /\ s.keys[i].res = "ok"

PackagedRowsOf(name) == {k \in DOMAIN g_rows : g_rows[k].kind = "Packaged" /\ g_rows[k].app = name}
DesktopRowsOf(name) == {k \in DOMAIN g_rows : g_rows[k].kind = "Desktop" /\ g_rows[k].exe = Decoded(name)}

\* C1: in every row, of either kind, activeNow is true exactly when the start
\* timestamp is non-zero and the stop timestamp is zero; a row with start 0
\* is never active.
ActiveIffStartedAndNotStopped ==
    \A k \in DOMAIN g_rows :
        /\ g_rows[k].activeNow = (g_rows[k].startFt # 0 /\ g_rows[k].stopFt = 0)
        /\ (g_rows[k].startFt = 0 => ~g_rows[k].activeNow)

ActiveWitness ==
    /\ Fresh
    /\ \E a, b \in DOMAIN g_rows :
          /\ g_rows[a].kind = "Packaged" /\ g_rows[a].activeNow /\ g_rows[a].startFt # 0
          /\ g_rows[b].kind = "Desktop" /\ g_rows[b].startFt = 0
          /\ g_rows[b].stopFt = 0 /\ ~g_rows[b].activeNow

\* C2: the rows are ordered with every active row before every inactive one,
\* and within each group by start timestamp, non-increasing.
IsSorted(rows) ==
    \A a, b \in DOMAIN rows :
        a < b =>
            /\ (rows[b].activeNow => rows[a].activeNow)
            /\ (rows[a].activeNow = rows[b].activeNow => rows[a].startFt >= rows[b].startFt)

RowsAreSorted == IsSorted(g_rows)

SortedWitness ==
    /\ Fresh
    /\ store.open
    /\ Len(g_rows) = 2
    /\ g_rows[1].activeNow /\ g_rows[2].activeNow
    /\ g_rows[1].startFt > g_rows[2].startFt
    /\ EnumRoot(store, 0, <<>>) = <<g_rows[2], g_rows[1]>>

\* C3: two rows with equal activeNow and equal startFt keep the relative
\* order in which they were appended before the sort.
PositionIn(seq, r) == CHOOSE k \in DOMAIN seq : seq[k] = r

SortIsStable ==
    (Fresh /\ store.open) =>
        LET appended == EnumRoot(store, 0, <<>>)
        IN \A a, b \in DOMAIN g_rows :
              (/\ a < b
               /\ g_rows[a].activeNow = g_rows[b].activeNow
               /\ g_rows[a].startFt = g_rows[b].startFt)
              => PositionIn(appended, g_rows[a]) < PositionIn(appended, g_rows[b])

\* C4: the list rendered with currentOnly set is the list rendered without
\* it restricted to the active rows, in the same order; without currentOnly
\* every row is rendered, in the order of the rows.
IsActive(r) == r.activeNow
IsActiveItem(it) == it.active = "Yes"
ItemsOf(rows) == [k \in DOMAIN rows |-> ListItem(rows[k])]

CurrentOnlyKeepsActiveRowsInOrder ==
    /\ ListView_Populate(g_rows, FALSE) = ItemsOf(g_rows)
    /\ ListView_Populate(g_rows, TRUE) = SelectSeq(ListView_Populate(g_rows, FALSE), IsActiveItem)
    /\ ListView_Populate(g_rows, TRUE) = ItemsOf(SelectSeq(g_rows, IsActive))
    /\ (ui = "ready" =>
          list = IF checked THEN ItemsOf(SelectSeq(g_rows, IsActive)) ELSE ItemsOf(g_rows))

CurrentOnlyWitness ==
    /\ Fresh
    /\ checked
    /\ Len(g_rows) = 2
    /\ g_rows[1].activeNow /\ ~g_rows[2].activeNow
    /\ list = <<ListItem(g_rows[1])>>

\* C5: when the root key cannot be opened, the refresh leaves no row and no
\* list item, whatever the earlier refresh had produced.
RootOpenFailureYieldsEmpty ==
    (Fresh /\ ~store.open) => (g_rows = <<>> /\ list = <<>>)

RootOpenFailureWitness ==
    /\ Fresh
    /\ ~store.open
    /\ hadRows
    /\ store.keys # <<>>
    /\ g_rows = <<>>

\* C6: a child whose enumeration or opening fails contributes no row, and
\* every child that enumerates and opens contributes exactly one.
FailureIsIsolated ==
    (Fresh /\ store.open) =>
        /\ \A i \in PackagedIndexes(store) :
              Cardinality(PackagedRowsOf(store.keys[i].name))
                  = IF store.keys[i].res = "ok" THEN 1 ELSE 0
        /\ \A j \in 1..Len(store.np) :
              Cardinality(DesktopRowsOf(store.np[j].name))
                  = IF store.np[j].res = "ok" /\ NonPackagedReadable(store) THEN 1 ELSE 0

FailureWitness ==
    /\ Fresh
    /\ store.open
    /\ Len(store.keys) >= 2
    /\ store.keys[1].res = "enumErr"
    /\ Len(g_rows) >= 1

\* C8: a child that opens yields one row even without LastUsedTimeStart or
\* LastUsedTimeStop, each missing timestamp being 0; with neither value the
\* row is inactive and both its timestamps render as the empty string.
RowReadsKey(r, e) ==
    /\ r.startFt = QwordOrZero(e.start)
    /\ r.stopFt = QwordOrZero(e.stop)
    /\ ((e.start = <<>> /\ e.stop = <<>>) =>
          /\ r.startFt = 0 /\ r.stopFt = 0 /\ ~r.activeNow
          /\ ListItem(r).start = <<>> /\ ListItem(r).stop = <<>>
          /\ (~checked => \E n \in DOMAIN list :
                 /\ list[n].kind = r.kind /\ list[n].app = r.app /\ list[n].exe = r.exe
                 /\ list[n].active = "No" /\ list[n].start = <<>> /\ list[n].stop = <<>>))

MissingValuesReadAsZero ==
    (Fresh /\ store.open) =>
        /\ \A i \in PackagedIndexes(store) :
              store.keys[i].res = "ok" =>
                  /\ Cardinality(PackagedRowsOf(store.keys[i].name)) = 1
                  /\ \A k \in PackagedRowsOf(store.keys[i].name) : RowReadsKey(g_rows[k], store.keys[i])
        /\ \A j \in 1..Len(store.np) :
              (store.np[j].res = "ok" /\ NonPackagedReadable(store)) =>
                  /\ Cardinality(DesktopRowsOf(store.np[j].name)) = 1
                  /\ \A k \in DesktopRowsOf(store.np[j].name) : RowReadsKey(g_rows[k], store.np[j])

MissingValuesWitness ==
    /\ Fresh
    /\ store.open
    /\ ~checked
    /\ \E i \in PackagedIndexes(store) :
          /\ store.keys[i].res = "ok"
          /\ store.keys[i].start = <<>> /\ store.keys[i].stop = <<>>
    /\ \E j \in 1..Len(store.np) :
          /\ store.np[j].res = "ok"
          /\ store.np[j].start # <<>> /\ store.np[j].start # <<0>> /\ store.np[j].stop = <<>>
    /\ Len(g_rows) = 2
    /\ g_rows[1].activeNow
    /\ Len(list) = 2

\* C9: a child of NonPackaged yields a Desktop row whose exe is the name
\* with every '#' replaced by '\' and whose app is the last component of
\* that path; any other child of the root yields a Packaged row whose app is
\* the name and whose exe is empty; the NonPackaged key yields no row.
\* `seps` are the characters that end a path component.
RowIdentity(seps) ==
    (Fresh /\ store.open) =>
        /\ \A k \in DOMAIN g_rows :
              \/ /\ g_rows[k].kind = "Packaged"
                 /\ g_rows[k].exe = <<>>
                 /\ g_rows[k].app \notin NonPackagedNames
                 /\ \E i \in 1..Len(store.keys) : store.keys[i].name = g_rows[k].app
              \/ /\ g_rows[k].kind = "Desktop"
                 /\ g_rows[k].app = LastComponent(g_rows[k].exe, seps)
                 /\ \E j \in 1..Len(store.np) : Decoded(store.np[j].name) = g_rows[k].exe
        /\ \A i \in PackagedIndexes(store) :
              store.keys[i].res = "ok" => PackagedRowsOf(store.keys[i].name) # {}
        /\ \A j \in 1..Len(store.np) :
              (store.np[j].res = "ok" /\ NonPackagedReadable(store))
                  => DesktopRowsOf(store.np[j].name) # {}

\* C9 as stated: the last component is the text after the last '\'.
RowIdentityBackslashOnly == RowIdentity({"\\"})

\* C9 amended: the last component is the text after the last '\' or '/'.
RowIdentityEitherSlash == RowIdentity({"\\", "/"})

RowIdentityWitness ==
    /\ Fresh
    /\ store.open
    /\ \E i \in 1..Len(store.keys) : store.keys[i].name \in NonPackagedNames \ {NonPackaged}
    /\ \E a, b \in DOMAIN g_rows :
          /\ g_rows[a].kind = "Packaged" /\ g_rows[a].app = <<"x", "#", "y">>
          /\ g_rows[b].kind = "Desktop"
          /\ g_rows[b].exe = <<"C", ":", "\\", "d", "\\", "a", "/", "b">>
          /\ g_rows[b].app = <<"b">>

\* C10: after a handler, the rows are the sorted rows of the store as that
\* handler found it, none left from an earlier refresh, and the list is those
\* rows filtered by the checkbox; no handler changes the store.
ExpectedRows(s) ==
    IF ~s.open THEN {}
    ELSE {PackagedRow(s.keys[i]) : i \in {i \in PackagedIndexes(s) : s.keys[i].res = "ok"}}
         \cup (IF NonPackagedReadable(s)
               THEN {DesktopRow(s.np[j]) : j \in {j \in 1..Len(s.np) : s.np[j].res = "ok"}}
               ELSE {})

SnapshotIsCurrent ==
    Fresh =>
        /\ Rows = ExpectedRows(store)
        /\ Len(g_rows) = Cardinality(ExpectedRows(store))
        /\ IsSorted(g_rows)
        /\ list = IF checked THEN ItemsOf(SelectSeq(g_rows, IsActive)) ELSE ItemsOf(g_rows)

RefreshReplacesSnapshot ==
    /\ []SnapshotIsCurrent
    /\ [][~changed' => store' = store]_vars

SnapshotWitness ==
    /\ Fresh
    /\ hadRows
    /\ checked
    /\ store.open
    /\ store.keys = <<>>
    /\ g_rows = <<>>
    /\ list = <<>>

\* C7: a call of LoadConsentStore returns, whatever the enumeration calls
\* answer.
RefreshTerminates == <>(pc = "return")

\* The call does return when no key's enumeration fails on every call.
RefreshTerminatesWithoutFault == (enumFault = "none") => <>(pc = "return")

====
